---- MODULE Spec2Model ----
(***************************************************************************)
(* A model of socketcan's netlink module (src/src/nl.rs): the control-mode *)
(* mask/flags builder, the Mtu enumeration, the byte image of the          *)
(* bit-timing record, and the netlink round trips of CanInterface, alone,  *)
(* from several threads of one process, and beside other processes.        *)
(***************************************************************************)
EXTENDS Integers, Sequences, FiniteSets, TLC

VARIABLES
    modes,      \* CanCtrlModes under construction: [mask, flags]
    applied,    \* the (mode, on) pairs applied to `modes` since it was built
    ctor,       \* how `modes` was built: "default" | "from_mode"
    mtuRaw,     \* the u32 handed to Mtu::try_from
    mtuSrc,     \* the Mtu that was encoded into mtuRaw, or "none"
    mtuRes,     \* the result of Mtu::try_from(mtuRaw), or MtuPending
    endian,     \* the build target's byte order: "little" | "big"
    links,      \* the kernel's link table: interface index -> link or NoLink
    pc,         \* where the caller's one call stands: "idle" | "open" | "send"
                \* | "recv" | "resolve" | "done"
    call,       \* the call in progress: its operation and arguments
    msg,        \* the request the call built (Nlmsghdr with its Ifinfomsg)
    sock,       \* the call's NlSocketHandle: "none" | "open" | "closed"
    inbox,      \* what the socket's next recv() will find
    result,     \* the call's return value
    stats,      \* transport actions of the call: sockets opened, sock.send
                \* calls made, replies read
    expect,     \* per index, what the caller's successful calls have set
    build,      \* the build profile: "debug" (debug_assert! checked) | "release"
    created,    \* the index the kernel gave the link this call created, or 0
    ports,      \* the kernel's netlink port table: the port ids bound
    tpc,        \* per thread, where its call stands
    tcall,      \* per thread, the call in progress
    tsock,      \* per thread, its socket: "none" | "open" | "closed"
    tinbox,     \* per thread, what its socket's next recv() will find
    tresult,    \* per thread, the call's return value
    timing,     \* an rt::can_bittiming record
    raw         \* as_bytes(&timing), or <<>> before as_bytes has run

modeVars == <<modes, applied, ctor>>
mtuVars == <<mtuRaw, mtuSrc, mtuRes>>
nlVars == <<endian, links, pc, call, msg, sock, inbox, result, stats, expect,
            build, created>>
concVars == <<ports, tpc, tcall, tsock, tinbox, tresult>>
bytesVars == <<timing, raw>>
vars == <<modes, applied, ctor, mtuRaw, mtuSrc, mtuRes,
          endian, links, pc, call, msg, sock, inbox, result, stats, expect,
          build, created, ports, tpc, tcall, tsock, tinbox, tresult,
          timing, raw>>

\* ------------------------------------------------------------------ bounds

\* Interface indices 1..MaxIdx exist in the kernel model.
MaxIdx == 2
\* A mocked link-info reply carries at most MaxAttrs attributes.
MaxAttrs == 2
\* How many add() calls are applied to one CanCtrlModes value.
MaxAdds == 2
\* The raw u32 values 0..MaxRaw are tried as Mtu::try_from inputs.
MaxRaw == 80

\* ------------------------------------------------------------- u32 helpers

\* TLC's integers are 32-bit signed: u32 values are modelled below 2^31, and
\* every value the builder produces is below 2^9 (the largest bit number is 8).

RECURSIVE BitOrN(_, _, _)
BitOrN(a, b, n) ==
    IF n = 0 THEN 0
    ELSE (IF (a % 2 = 1) \/ (b % 2 = 1) THEN 1 ELSE 0)
         + 2 * BitOrN(a \div 2, b \div 2, n - 1)

\* a | b on u32
BitOr(a, b) == BitOrN(a, b, 32)

\* a << n on u32, for shifts that stay below 2^31
Shl(a, n) == a * (2 ^ n)

\* whether bit n is set in the u32 a
BitSet(a, n) == (a \div (2 ^ n)) % 2 = 1

\* ------------------------------------------------------------ CanCtrlMode

\* enum CanCtrlMode, #[repr(u32)]: the discriminants are the bit numbers
CanCtrlMode ==
    [Loopback |-> 0, ListenOnly |-> 1, TripleSampling |-> 2, OneShot |-> 3,
     BerrReporting |-> 4, Fd |-> 5, PresumeAck |-> 6, NonIso |-> 7,
     CcLen8Dlc |-> 8]

CtrlModeNames == DOMAIN CanCtrlMode

\* CanCtrlMode::mask
mask(mode) == Shl(1, CanCtrlMode[mode])

\* rt::can_ctrlmode::default() / CanCtrlModes::default()
can_ctrlmode_default == [mask |-> 0, flags |-> 0]

\* CanCtrlModes::new
new(m, f) == [mask |-> m, flags |-> f]

\* a from_mode that sets the flag whatever `on` says
from_mode_always_on(mode, on) == new(mask(mode), mask(mode))

\* CanCtrlModes::from_mode
from_mode(mode, on) ==
    LET m == mask(mode)
        flags == IF on THEN m ELSE 0
    IN new(m, flags)

\* an add that overwrites the mask instead of OR-ing into it
add_overwrite(self, mode, on) ==
    [mask |-> mask(mode),
     flags |-> IF on THEN BitOr(self.flags, mask(mode)) ELSE self.flags]

\* CanCtrlModes::add
add(self, mode, on) ==
    LET m == mask(mode)
    IN [mask |-> BitOr(self.mask, m),
        flags |-> IF on THEN BitOr(self.flags, m) ELSE self.flags]

\* CanCtrlModes::clear
clear(self) == can_ctrlmode_default

\* --------------------------------------------------------------------- Mtu

\* enum Mtu, #[repr(u32)]
Mtu == [Standard |-> 16, Fd |-> 72]

MtuNames == DOMAIN Mtu

\* `mtu as u32`
MtuAsU32(m) == Mtu[m]

\* a try_from that falls back to Standard instead of failing
try_from_defaulting(val) ==
    IF val = 72 THEN [ok |-> TRUE, val |-> "Fd"]
    ELSE [ok |-> TRUE, val |-> "Standard"]

\* impl TryFrom<u32> for Mtu
try_from(val) ==
    CASE val = 16 -> [ok |-> TRUE, val |-> "Standard"]
      [] val = 72 -> [ok |-> TRUE, val |-> "Fd"]
      [] OTHER -> [ok |-> FALSE, val |-> "InvalidData"]

\* no try_from result yet
MtuPending == [ok |-> FALSE, val |-> "pending"]

ModesIdle == modes = can_ctrlmode_default /\ applied = <<>> /\ ctor = "default"
MtuIdle == mtuRaw = 0 /\ mtuSrc = "none" /\ mtuRes = MtuPending

\* ------------------------------------------------------- netlink messages

\* libc::IFNAMSIZ
IFNAMSIZ == 16

\* rt::EXT_FILTER_VF
EXT_FILTER_VF == 1

Indices == 1..MaxIdx

\* interface names as the bytes of the &str: "vcan0", "vcan1", a name of
\* IFNAMSIZ bytes and a name of IFNAMSIZ + 1 bytes
NameA == <<118, 99, 97, 110, 48>>
NameB == <<118, 99, 97, 110, 49>>
Name16 == [i \in 1..IFNAMSIZ |-> 120]
Name17 == [i \in 1..(IFNAMSIZ + 1) |-> 120]
Names == {NameA, NameB, Name16, Name17}

\* link kinds as the bytes of the &str: "vcan", "can", and a kind no driver has
KindVcan == <<118, 99, 97, 110>>
KindCan == <<99, 97, 110>>
KindBogus == <<120>>

\* u32::to_ne_bytes on the build target
to_ne_bytes(v, e) ==
    LET le == <<v % 256, (v \div 256) % 256, (v \div 65536) % 256,
                (v \div 16777216) % 256>>
    IN IF e = "little" THEN le ELSE <<le[4], le[3], le[2], le[1]>>

\* a from_ne_bytes that always reads little-endian
from_le_bytes(b, e) == b[1] + 256 * b[2] + 65536 * b[3] + 16777216 * b[4]

\* u32::from_ne_bytes on the build target
from_ne_bytes(b, e) ==
    IF e = "little"
    THEN b[1] + 256 * b[2] + 65536 * b[3] + 16777216 * b[4]
    ELSE b[4] + 256 * b[3] + 65536 * b[2] + 16777216 * b[1]

\* the payload bytes neli writes for a &str: the bytes and a terminating nul
StrBytes(str) == Append(str, 0)

\* Rtattr::new(None, rta_type, payload); `nested` holds what
\* add_nested_attribute appended
Rtattr(rta_type, payload) ==
    [rta_type |-> rta_type, rta_payload |-> payload, nested |-> <<>>]

\* Rtattr::add_nested_attribute
add_nested_attribute(attr, sub) == [attr EXCEPT !.nested = Append(@, sub)]

\* Ifinfomsg::new(RtAddrFamily::Unspecified, Arphrd::Netrom, index, flags,
\* change, rtattrs)
Ifinfomsg(index, flags, change, rtattrs) ==
    [ifi_family |-> "Unspecified", ifi_type |-> "Netrom", ifi_index |-> index,
     ifi_flags |-> flags, ifi_change |-> change, rtattrs |-> rtattrs]

\* Ifinfomsg::up: the Up bit in both ifi_flags and ifi_change
IfinfomsgUp(index, rtattrs) == Ifinfomsg(index, {"Up"}, {"Up"}, rtattrs)

\* Ifinfomsg::down: Up cleared in ifi_flags and set in ifi_change
IfinfomsgDown(index, rtattrs) == Ifinfomsg(index, {}, {"Up"}, rtattrs)

\* Nlmsghdr::new(None, nl_type, nl_flags, None, None, NlPayload::Payload(info))
Nlmsghdr(nl_type, nl_flags, info) ==
    [nl_type |-> nl_type, nl_flags |-> nl_flags, nl_payload |-> info]

NoMsg == [nl_type |-> "none", nl_flags |-> {}, nl_payload |-> Ifinfomsg(0, {}, {}, <<>>)]

\* the header send_info_msg builds: Request and Ack, and the additional flags
InfoMsgHdr(msg_type, info, additional_flags) ==
    Nlmsghdr(msg_type, {"Request", "Ack"} \cup additional_flags, info)

\* the message of bring_down
BringDownMsg(c) ==
    InfoMsgHdr("Newlink", IfinfomsgDown(c.self, <<>>), {})

\* a bring_up that builds the message of bring_down
BringUpMsgAsDown(c) ==
    InfoMsgHdr("Newlink", IfinfomsgDown(c.self, <<>>), {})

\* the message of bring_up
BringUpMsg(c) ==
    InfoMsgHdr("Newlink", IfinfomsgUp(c.self, <<>>), {})

\* index.unwrap_or(0), for an Option<u32> [some, val]
unwrap_or_0(index) == IF index.some THEN index.val ELSE 0

\* the message of create
CreateMsg(c) ==
    LET linkinfo == add_nested_attribute(Rtattr("Linkinfo", <<>>),
                                         Rtattr("Kind", StrBytes(c.kind)))
        buffer == <<Rtattr("Ifname", StrBytes(c.name)), linkinfo>>
    IN InfoMsgHdr("Newlink", Ifinfomsg(unwrap_or_0(c.index), {}, {}, buffer),
                  {"Create", "Excl"})

\* the message of delete
DeleteMsg(c) ==
    InfoMsgHdr("Dellink", Ifinfomsg(c.self, {}, {}, <<>>), {})

\* a details that asks for an acknowledgement as send_info_msg does
DetailsMsgWithAck(c) ==
    LET buffer == <<Rtattr("ExtMask", to_ne_bytes(EXT_FILTER_VF, endian))>>
    IN InfoMsgHdr("Getlink", Ifinfomsg(c.self, {}, {}, buffer), {})

\* the message of details: Getlink with the Request flag alone
DetailsMsg(c) ==
    LET buffer == <<Rtattr("ExtMask", to_ne_bytes(EXT_FILTER_VF, endian))>>
    IN Nlmsghdr("Getlink", {"Request"}, Ifinfomsg(c.self, {}, {}, buffer))

\* the message of set_mtu
SetMtuMsg(c) ==
    LET buffer == <<Rtattr("Mtu", to_ne_bytes(MtuAsU32(c.mtu), endian))>>
    IN InfoMsgHdr("Newlink", Ifinfomsg(c.self, {}, {}, buffer), {})

\* enum rt::IflaCan, #[repr(u16)]: `param as u16`
IflaCan ==
    [Unspec |-> 0, BitTiming |-> 1, BitTimingConst |-> 2, Clock |-> 3,
     State |-> 4, CtrlMode |-> 5, RestartMs |-> 6, Restart |-> 7,
     BerrCounter |-> 8, DataBitTiming |-> 9, DataBitTimingConst |-> 10,
     Termination |-> 11, TerminationConst |-> 12, BitRateConst |-> 13,
     DataBitRateConst |-> 14, BitRateMax |-> 15, Tdc |-> 16,
     CtrlModeExt |-> 17]

\* struct rt::can_bittiming, #[repr(C)]: its u32 fields in declared order
can_bittiming ==
    <<"bitrate", "sample_point", "tq", "prop_seg", "phase_seg1", "phase_seg2",
      "sjw", "brp">>

\* struct rt::can_ctrlmode, #[repr(C)]: its u32 fields in declared order
can_ctrlmode == <<"mask", "flags">>

\* rt::can_bittiming::default()
can_bittiming_default == [f \in {can_bittiming[k] : k \in DOMAIN can_bittiming} |-> 0]

\* an as_bytes that lays the fields out last to first
RECURSIVE as_bytes_reversed(_, _, _)
as_bytes_reversed(val, fields, e) ==
    IF fields = <<>> THEN <<>>
    ELSE as_bytes_reversed(val, Tail(fields), e) \o to_ne_bytes(val[Head(fields)], e)

\* as_bytes(&val) for a #[repr(C)] struct whose fields are all u32: the
\* size_of::<T>() bytes of the value's memory, which are the fields in
\* declared order, each in the target's byte order, with nothing between
RECURSIVE as_bytes(_, _, _)
as_bytes(val, fields, e) ==
    IF fields = <<>> THEN <<>>
    ELSE to_ne_bytes(val[Head(fields)], e) \o as_bytes(val, Tail(fields), e)

\* a set_can_param that puts the parameter beside the kind, not under Data
set_can_param_flat(if_index, param, param_data) ==
    LET data == Rtattr("Data", <<>>)
        kind == Rtattr("Kind", StrBytes(KindCan))
        link_info == add_nested_attribute(
                        add_nested_attribute(
                            add_nested_attribute(Rtattr("Linkinfo", <<>>), kind),
                            data),
                        Rtattr(IflaCan[param], param_data))
    IN InfoMsgHdr("Newlink", Ifinfomsg(if_index, {}, {}, <<link_info>>), {})

\* the message of set_can_param: Linkinfo nests Kind = "can" and Data, and
\* Data nests the one parameter
set_can_param(if_index, param, param_data) ==
    LET data == add_nested_attribute(Rtattr("Data", <<>>),
                                     Rtattr(IflaCan[param], param_data))
        kind == Rtattr("Kind", StrBytes(KindCan))
        link_info == add_nested_attribute(
                        add_nested_attribute(Rtattr("Linkinfo", <<>>), kind),
                        data)
    IN InfoMsgHdr("Newlink", Ifinfomsg(if_index, {}, {}, <<link_info>>), {})

\* the record set_bitrate and set_data_bitrate build: the bitrate, the
\* sample point or 0, and the defaults
BitTiming(bitrate, sample_point) ==
    [can_bittiming_default EXCEPT !.bitrate = bitrate,
                                  !.sample_point = unwrap_or_0(sample_point)]

\* the message of set_bitrate
SetBitrateMsg(c) ==
    set_can_param(c.self, "BitTiming",
                  as_bytes(BitTiming(c.bitrate, c.sample_point), can_bittiming, endian))

\* the message of set_data_bitrate
SetDataBitrateMsg(c) ==
    set_can_param(c.self, "DataBitTiming",
                  as_bytes(BitTiming(c.bitrate, c.sample_point), can_bittiming, endian))

\* the message of set_ctrlmodes
SetCtrlmodesMsg(c) ==
    set_can_param(c.self, "CtrlMode", as_bytes(c.ctrl, can_ctrlmode, endian))

\* the message of set_ctrlmode: set_ctrlmodes(from_mode(mode, on))
SetCtrlmodeMsg(c) ==
    SetCtrlmodesMsg([c EXCEPT !.ctrl = from_mode(c.mode, c.on)])

\* the message of set_restart_ms
SetRestartMsMsg(c) ==
    set_can_param(c.self, "RestartMs", to_ne_bytes(c.restart_ms, endian))

\* the message of restart: restart_data is 1
RestartMsg(c) ==
    set_can_param(c.self, "Restart", to_ne_bytes(1, endian))

\* the request each public operation builds
BuildMsg(c) ==
    CASE c.op = "bring_up" -> BringUpMsg(c)
      [] c.op = "bring_down" -> BringDownMsg(c)
      [] c.op = "create" -> CreateMsg(c)
      [] c.op = "delete" -> DeleteMsg(c)
      [] c.op = "details" -> DetailsMsg(c)
      [] c.op = "set_mtu" -> SetMtuMsg(c)
      [] c.op = "set_bitrate" -> SetBitrateMsg(c)
      [] c.op = "set_data_bitrate" -> SetDataBitrateMsg(c)
      [] c.op = "set_ctrlmodes" -> SetCtrlmodesMsg(c)
      [] c.op = "set_ctrlmode" -> SetCtrlmodeMsg(c)
      [] c.op = "set_restart_ms" -> SetRestartMsMsg(c)
      [] c.op = "restart" -> RestartMsg(c)

\* ---------------------------------------------------------- reply decoding

\* Option<String>::None and Some(bytes of the string)
NoName == [some |-> FALSE, val |-> <<>>]
SomeName(str) == [some |-> TRUE, val |-> str]

\* InterfaceDetails::new(index): the index and the defaults
InterfaceDetailsNew(index) ==
    [name |-> NoName, index |-> index, is_up |-> FALSE, mtu |-> "None"]

Front(b) == SubSeq(b, 1, Len(b) - 1)
Drop(b, n) == SubSeq(b, n + 1, Len(b))
IsCont(x) == x >= 128 /\ x <= 191

\* std::str::from_utf8(b).is_ok()
RECURSIVE Utf8Valid(_)
Utf8Valid(b) ==
    IF b = <<>> THEN TRUE
    ELSE LET x == b[1] IN
         CASE x < 128 -> Utf8Valid(Tail(b))
           [] x >= 194 /\ x <= 223 ->
                Len(b) >= 2 /\ IsCont(b[2]) /\ Utf8Valid(Drop(b, 2))
           [] x >= 224 /\ x <= 239 ->
                /\ Len(b) >= 3 /\ IsCont(b[2]) /\ IsCont(b[3])
                /\ (x = 224 => b[2] >= 160)
                /\ (x = 237 => b[2] <= 159)
                /\ Utf8Valid(Drop(b, 3))
           [] x >= 240 /\ x <= 244 ->
                /\ Len(b) >= 4 /\ IsCont(b[2]) /\ IsCont(b[3]) /\ IsCont(b[4])
                /\ (x = 240 => b[2] >= 144)
                /\ (x = 244 => b[2] <= 143)
                /\ Utf8Valid(Drop(b, 4))
           [] OTHER -> FALSE

\* CString::from_vec_with_nul(v).is_ok(): one nul byte, and it is the last
from_vec_with_nul_ok(v) ==
    /\ Len(v) >= 1
    /\ v[Len(v)] = 0
    /\ \A i \in 1..(Len(v) - 1) : v[i] # 0

\* a name arm that takes any payload as the name, nul and all
DecodeNameUnchecked(info, payload) == [info EXCEPT !.name = SomeName(payload)]

\* the Ifla::Ifname arm of details
DecodeName(info, payload) ==
    IF from_vec_with_nul_ok(payload) /\ Utf8Valid(Front(payload))
    THEN [info EXCEPT !.name = SomeName(Front(payload))]
    ELSE info

\* try_from(..).ok()
MtuOk(r) == IF r.ok THEN r.val ELSE "None"

\* the Ifla::Mtu arm of details
DecodeMtuAttr(info, payload, e) ==
    IF Len(payload) = 4
    THEN [info EXCEPT !.mtu = MtuOk(try_from(from_ne_bytes(payload, e)))]
    ELSE info

\* the loop of details over payload.rtattrs
RECURSIVE DecodeAttrs(_, _, _)
DecodeAttrs(info, rtattrs, e) ==
    IF rtattrs = <<>> THEN info
    ELSE LET attr == rtattrs[1]
             next == CASE attr.rta_type = "Ifname" -> DecodeName(info, attr.rta_payload)
                       [] attr.rta_type = "Mtu" -> DecodeMtuAttr(info, attr.rta_payload, e)
                       [] OTHER -> info
         IN DecodeAttrs(next, Tail(rtattrs), e)

\* details, for a reply whose get_payload() is Ok(payload)
DecodePayload(index, payload, e) ==
    DecodeAttrs([InterfaceDetailsNew(index) EXCEPT
                    !.is_up = "Up" \in payload.ifi_flags],
                payload.rtattrs, e)

\* ----------------------------------------------------------------- replies

\* what recv() finds: nothing (Ok(None)), or a message whose payload is an
\* Ack, an Err(code), Empty, or a Payload(Ifinfomsg)
NoReply == [kind |-> "None", code |-> "", payload |-> Ifinfomsg(0, {}, {}, <<>>)]
AckReply == [NoReply EXCEPT !.kind = "Ack"]
ErrReply(code) == [NoReply EXCEPT !.kind = "Err", !.code = code]
EmptyReply == [NoReply EXCEPT !.kind = "Empty"]
PayloadReply(p) == [NoReply EXCEPT !.kind = "Payload", !.payload = p]

\* results of the public operations
NoResult == [tag |-> "none"]
OkUnit == [tag |-> "Ok"]
OkHandle(if_index) == [tag |-> "Ok", if_index |-> if_index]
OkDetails(info) == [tag |-> "Ok", info |-> info]
ErrNoAck == [tag |-> "Err", err |-> "NoAck", code |-> ""]
ErrNlmsgerr(code) == [tag |-> "Err", err |-> "Nlmsgerr", code |-> code]
ErrMsg(text) == [tag |-> "Err", err |-> "Msg", code |-> text]
ErrIo(what) == [tag |-> "Err", err |-> "Io", code |-> what]
\* a failed debug_assert!: the call panics and returns nothing
Panicked(text) == [tag |-> "Panic", err |-> "debug_assert", code |-> text]

\* a send_and_read_ack that takes any message for the acknowledgement
AckResultAnyMessage(r) ==
    CASE r.kind = "Err" -> ErrNlmsgerr(r.code)
      [] r.kind = "None" -> ErrNoAck
      [] OTHER -> OkUnit

\* send_and_read_ack after the send: recv()? fails on an Err reply, an Ack
\* is Ok(()), and everything else is NoAck
AckResult(r) ==
    CASE r.kind = "Err" -> ErrNlmsgerr(r.code)
      [] r.kind = "Ack" -> OkUnit
      [] OTHER -> ErrNoAck

\* a details that fails with NoAck when the reply has no payload
DetailsResultStrict(index, r, e) ==
    CASE r.kind = "Err" -> ErrNlmsgerr(r.code)
      [] r.kind = "Payload" -> OkDetails(DecodePayload(index, r.payload, e))
      [] OTHER -> ErrNoAck

\* details after the send: recv()? fails on an Err reply, no message is
\* NoAck, and any message gives a record, decoded when it has a payload
DetailsResult(index, r, e) ==
    CASE r.kind = "Err" -> ErrNlmsgerr(r.code)
      [] r.kind = "None" -> ErrNoAck
      [] r.kind = "Payload" -> OkDetails(DecodePayload(index, r.payload, e))
      [] OTHER -> OkDetails(InterfaceDetailsNew(index))

\* a delete that hands back a handle with no index
DeleteResultZero(self, r) ==
    IF r.tag = "Ok" THEN OkUnit
    ELSE [tag |-> "Err", err |-> r.err, code |-> r.code, if_index |-> 0]

\* delete: Ok(()) or Err((self, err))
DeleteResult(self, r) ==
    IF r.tag = "Ok" THEN OkUnit
    ELSE [tag |-> "Err", err |-> r.err, code |-> r.code, if_index |-> self]

\* ---------------------------------------------------------- kernel links

NoLink == [present |-> FALSE, name |-> <<>>, kind |-> <<>>, up |-> FALSE, mtu |-> 0]
Link(name, kind, up, mtu) ==
    [present |-> TRUE, name |-> name, kind |-> kind, up |-> up, mtu |-> mtu]

\* "can0", a physical CAN interface that exists before the caller starts
NameCan0 == <<99, 97, 110, 48>>
Can0 == Link(NameCan0, KindCan, FALSE, 16)

\* how the kernel writes and reads a u32 attribute: in the machine's byte order
KernelBytes(v, e) ==
    LET le == <<v % 256, (v \div 256) % 256, (v \div 65536) % 256,
                (v \div 16777216) % 256>>
    IN IF e = "little" THEN le ELSE <<le[4], le[3], le[2], le[1]>>
KernelU32(b, e) ==
    IF e = "little"
    THEN b[1] + 256 * b[2] + 65536 * b[3] + 16777216 * b[4]
    ELSE b[4] + 256 * b[3] + 65536 * b[2] + 16777216 * b[1]

\* the attributes of one type in an attribute list
AttrsOf(rtattrs, t) == SelectSeq(rtattrs, LAMBDA a : a.rta_type = t)

\* the kernel's reply to Getlink for a link: its flags, name and MTU
LinkPayload(i, l, e) ==
    Ifinfomsg(i, IF l.up THEN {"Up", "Running"} ELSE {}, {},
              <<Rtattr("Ifname", StrBytes(l.name)),
                Rtattr("Txqlen", KernelBytes(1000, e)),
                Rtattr("Mtu", KernelBytes(l.mtu, e))>>)

\* Newlink with Create and Excl: a new link, down, under a free index
KernelCreate(info, lk) ==
    LET names == AttrsOf(info.rtattrs, "Ifname")
        infos == AttrsOf(info.rtattrs, "Linkinfo")
        kinds == IF infos = <<>> THEN <<>> ELSE AttrsOf(infos[1].nested, "Kind")
        free == {i \in Indices : ~lk[i].present}
        fail(code) == {[links |-> lk, reply |-> ErrReply(code)]}
    IN CASE names = <<>> \/ kinds = <<>> -> fail("EINVAL")
         [] Len(names[1].rta_payload) > IFNAMSIZ -> fail("ERANGE")
         [] info.ifi_index \notin Indices \cup {0} -> fail("EINVAL")
         [] info.ifi_index # 0 /\ lk[info.ifi_index].present -> fail("EEXIST")
         [] \E i \in Indices : lk[i].present /\ StrBytes(lk[i].name) = names[1].rta_payload ->
                fail("EEXIST")
         [] kinds[1].rta_payload # StrBytes(KindVcan) -> fail("EOPNOTSUPP")
         [] info.ifi_index = 0 /\ free = {} -> fail("ENFILE")
         [] OTHER ->
                {[links |-> [lk EXCEPT ![i] = Link(Front(names[1].rta_payload),
                                                  KindVcan, FALSE, 72)],
                  reply |-> AckReply] :
                    i \in IF info.ifi_index = 0 THEN free ELSE {info.ifi_index}}

\* Newlink without Create: change the link under ifi_index
KernelSet(info, lk, e) ==
    LET i == info.ifi_index
        l == lk[i]
        mtus == AttrsOf(info.rtattrs, "Mtu")
        infos == AttrsOf(info.rtattrs, "Linkinfo")
        newMtu == IF mtus = <<>> \/ Len(mtus[1].rta_payload) # 4 THEN l.mtu
                  ELSE KernelU32(mtus[1].rta_payload, e)
        newUp == IF "Up" \in info.ifi_change THEN "Up" \in info.ifi_flags ELSE l.up
        fail(code) == {[links |-> lk, reply |-> ErrReply(code)]}
    IN CASE i \notin Indices -> fail("ENODEV")
         [] ~l.present -> fail("ENODEV")
         [] infos # <<>> /\ l.kind # KindCan -> fail("EOPNOTSUPP")
         [] mtus # <<>> /\ Len(mtus[1].rta_payload) # 4 -> fail("EINVAL")
         [] mtus # <<>> /\ l.up -> fail("EBUSY")
         [] mtus # <<>> /\ newMtu \notin {16, 72} -> fail("EINVAL")
         [] OTHER ->
                {[links |-> [lk EXCEPT ![i] = [l EXCEPT !.mtu = newMtu, !.up = newUp]],
                  reply |-> AckReply]}

\* Dellink: remove the link under ifi_index
KernelDelete(info, lk) ==
    LET i == info.ifi_index
        fail(code) == {[links |-> lk, reply |-> ErrReply(code)]}
    IN CASE i \notin Indices -> fail("ENODEV")
         [] ~lk[i].present -> fail("ENODEV")
         [] lk[i].kind # KindVcan -> fail("EOPNOTSUPP")
         [] OTHER -> {[links |-> [lk EXCEPT ![i] = NoLink], reply |-> AckReply]}

\* Getlink: the link's payload, or ENODEV
KernelGet(info, lk, e) ==
    LET i == info.ifi_index
    IN IF i \in Indices /\ lk[i].present
       THEN {[links |-> lk, reply |-> PayloadReply(LinkPayload(i, lk[i], e))]}
       ELSE {[links |-> lk, reply |-> ErrReply("ENODEV")]}

\* what the kernel does with one request: the new link table and the reply
KernelOutcomes(m, lk, e) ==
    CASE m.nl_type = "Newlink" /\ "Create" \in m.nl_flags -> KernelCreate(m.nl_payload, lk)
      [] m.nl_type = "Newlink" -> KernelSet(m.nl_payload, lk, e)
      [] m.nl_type = "Dellink" -> KernelDelete(m.nl_payload, lk)
      [] m.nl_type = "Getlink" -> KernelGet(m.nl_payload, lk, e)

\* nix::net::if_::if_nametoindex: the indices of the links of that name
if_nametoindex(name, lk) == {i \in Indices : lk[i].present /\ lk[i].name = name}

\* ------------------------------------------------------------------- calls

\* Option<u32>
NoneIdx == [some |-> FALSE, val |-> 0]
SomeIdx(i) == [some |-> TRUE, val |-> i]

NoCall == [op |-> "none", self |-> 0, name |-> <<>>, index |-> NoneIdx,
           kind |-> <<>>, mtu |-> "None", bitrate |-> 0,
           sample_point |-> NoneIdx, ctrl |-> can_ctrlmode_default,
           mode |-> "Loopback", on |-> FALSE, restart_ms |-> 0]

\* the calls tried: every operation on every index, create_vcan with every
\* name and index, and create with a kind no driver has
Calls ==
    {[NoCall EXCEPT !.op = o, !.self = i] :
        o \in {"bring_up", "bring_down", "delete", "details"}, i \in Indices}
    \cup {[NoCall EXCEPT !.op = "set_mtu", !.self = i, !.mtu = m] :
            i \in Indices, m \in MtuNames}
    \cup {[NoCall EXCEPT !.op = "create", !.name = n, !.index = x, !.kind = KindVcan] :
            n \in Names, x \in {NoneIdx} \cup {SomeIdx(i) : i \in 0..MaxIdx}}
    \cup {[NoCall EXCEPT !.op = "create", !.name = NameA, !.kind = KindBogus]}

\* bitrates at and around the ends of 1..=1000000, and sample points at and
\* around the ends of 0..1000
Bitrates == {0, 1, 500000, 1000000, 1000001}
SamplePoints == {NoneIdx, SomeIdx(0), SomeIdx(750), SomeIdx(999), SomeIdx(1000)}

\* the set-parameter calls tried
ParamCalls ==
    {[NoCall EXCEPT !.op = o, !.self = i, !.bitrate = b, !.sample_point = p] :
        o \in {"set_bitrate", "set_data_bitrate"}, i \in Indices,
        b \in Bitrates, p \in SamplePoints}
    \cup {[NoCall EXCEPT !.op = "set_ctrlmodes", !.self = i, !.ctrl = m] :
            i \in Indices,
            m \in {can_ctrlmode_default, from_mode("Loopback", TRUE),
                   add(from_mode("Fd", TRUE), "ListenOnly", FALSE)}}
    \cup {[NoCall EXCEPT !.op = "set_ctrlmode", !.self = i, !.mode = m, !.on = on] :
            i \in Indices, m \in {"Loopback", "CcLen8Dlc"}, on \in BOOLEAN}
    \cup {[NoCall EXCEPT !.op = "set_restart_ms", !.self = i, !.restart_ms = r] :
            i \in Indices, r \in {0, 100}}
    \cup {[NoCall EXCEPT !.op = "restart", !.self = i] : i \in Indices}

NoStats == [opened |-> 0, sent |-> 0, recvd |-> 0]

\* what the caller's successful calls have set on an index
NoExpect == [name |-> NoName, up |-> "unknown", mtu |-> "unknown"]

NlIdle ==
    /\ endian = "little"
    /\ links = [i \in Indices |-> NoLink]
    /\ pc = "idle"
    /\ call = NoCall
    /\ msg = NoMsg
    /\ sock = "none"
    /\ inbox = NoReply
    /\ result = NoResult
    /\ stats = NoStats
    /\ expect = [i \in Indices |-> NoExpect]
    /\ build = "debug"
    /\ created = 0

\* Threads of the one process that call public operations concurrently.
NumThreads == 2
Threads == 1..NumThreads

ConcIdle ==
    /\ ports = {}
    /\ tpc = [t \in Threads |-> "idle"]
    /\ tcall = [t \in Threads |-> NoCall]
    /\ tsock = [t \in Threads |-> "none"]
    /\ tinbox = [t \in Threads |-> NoReply]
    /\ tresult = [t \in Threads |-> NoResult]

BytesIdle == timing = can_bittiming_default /\ raw = <<>>

\* delete hands the handle back with every error
Finish(c, res) == IF c.op = "delete" THEN DeleteResult(c.self, res) ELSE res

\* a create that checks the name only after the socket is open
StartUnchecked(c) ==
    /\ pc = "idle"
    /\ call' = c
    /\ stats' = NoStats
    /\ sock' = "none"
    /\ inbox' = NoReply
    /\ msg' = BuildMsg(c)
    /\ pc' = "open"
    /\ result' = NoResult
    /\ UNCHANGED <<endian, links, expect, build, created, modeVars,
                   mtuVars, concVars, bytesVars>>

\* debug_assert! only in set_bitrate
DebugAssertsBitrateOnly(c) ==
    IF c.op = "set_bitrate" /\ ~(0 < c.bitrate /\ c.bitrate <= 1000000)
    THEN "Bitrate must be within 1..=1000000"
    ELSE ""

\* the debug_assert!s an operation makes on its arguments: the message of
\* the first that fails, or "" when none fails; only set_bitrate has any
DebugAsserts(c) ==
    IF c.op = "set_bitrate"
    THEN IF ~(0 < c.bitrate /\ c.bitrate <= 1000000)
         THEN "Bitrate must be within 1..=1000000"
         ELSE IF ~(unwrap_or_0(c.sample_point) < 1000)
         THEN "Sample point must be within 0..1000"
         ELSE ""
    ELSE ""

\* a public operation is called: create validates the name, set_bitrate
\* asserts its arguments in a debug build, and every operation builds its
\* Ifinfomsg before it opens a socket
Start(c) ==
    /\ pc = "idle"
    /\ call' = c
    /\ stats' = NoStats
    /\ sock' = "none"
    /\ inbox' = NoReply
    /\ IF c.op = "create" /\ Len(c.name) > IFNAMSIZ
       THEN /\ result' = ErrMsg("Interface name too long")
            /\ msg' = NoMsg
            /\ pc' = "done"
       ELSE IF build = "debug" /\ DebugAsserts(c) # ""
       THEN /\ result' = Panicked(DebugAsserts(c))
            /\ msg' = NoMsg
            /\ pc' = "done"
       ELSE /\ result' = NoResult
            /\ msg' = BuildMsg(c)
            /\ pc' = "open"
    /\ UNCHANGED <<endian, links, expect, build, created, modeVars,
                   mtuVars, concVars, bytesVars>>

\* open_route_socket: NlSocketHandle::connect succeeds
OpenSocket ==
    /\ pc = "open"
    /\ sock' = "open"
    /\ stats' = [stats EXCEPT !.opened = @ + 1]
    /\ pc' = "send"
    /\ UNCHANGED <<endian, links, call, msg, inbox, result, expect, build, created, modeVars,
                   mtuVars, concVars, bytesVars>>

\* open_route_socket: NlSocketHandle::connect fails, and `?` returns
OpenFail ==
    /\ pc = "open"
    /\ result' = Finish(call, ErrIo("connect"))
    /\ pc' = "done"
    /\ UNCHANGED <<endian, links, call, msg, sock, inbox, stats, expect, build, created, modeVars,
                   mtuVars, concVars, bytesVars>>

\* the index of the link an acknowledged create request made, or 0
CreatedIndex(m, lk, o) ==
    IF m.nl_type = "Newlink" /\ "Create" \in m.nl_flags /\ o.reply = AckReply
    THEN CHOOSE i \in Indices : ~lk[i].present /\ o.links[i].present
    ELSE 0

\* sock.send(msg) to the kernel, which handles the request and queues its reply
Send ==
    /\ pc = "send"
    /\ \E o \in KernelOutcomes(msg, links, endian) :
        /\ links' = o.links
        /\ inbox' = o.reply
        /\ created' = CreatedIndex(msg, links, o)
    /\ stats' = [stats EXCEPT !.sent = @ + 1]
    /\ pc' = "recv"
    /\ UNCHANGED <<endian, call, msg, sock, result, expect, build, modeVars,
                   mtuVars, concVars, bytesVars>>

\* a failed sock.send(msg) after which the call sends again
SendFailRetry ==
    /\ pc = "send"
    /\ stats' = [stats EXCEPT !.sent = @ + 1]
    /\ UNCHANGED <<endian, links, pc, call, msg, sock, inbox, result, expect,
                   build, created, modeVars, mtuVars, concVars, bytesVars>>

\* sock.send(msg) fails, `?` returns and the socket is dropped
SendFail ==
    /\ pc = "send"
    /\ stats' = [stats EXCEPT !.sent = @ + 1]
    /\ result' = Finish(call, ErrIo("send"))
    /\ sock' = "closed"
    /\ pc' = "done"
    /\ UNCHANGED <<endian, links, call, msg, inbox, expect, build, created, modeVars,
                   mtuVars, concVars, bytesVars>>

\* sock.recv() returns, the result is formed and the socket is dropped;
\* create without an index goes on to resolve the name
Recv ==
    /\ pc = "recv"
    /\ stats' = [stats EXCEPT !.recvd = @ + 1]
    /\ sock' = "closed"
    /\ LET res == IF call.op = "details"
                  THEN DetailsResult(call.self, inbox, endian)
                  ELSE AckResult(inbox)
       IN IF call.op = "create" /\ res.tag = "Ok"
          THEN IF call.index.some
               THEN result' = OkHandle(call.index.val) /\ pc' = "done"
               ELSE result' = NoResult /\ pc' = "resolve"
          ELSE result' = Finish(call, res) /\ pc' = "done"
    /\ UNCHANGED <<endian, links, call, msg, inbox, expect, build, created, modeVars,
                   mtuVars, concVars, bytesVars>>

\* sock.recv() fails, `?` returns and the socket is dropped
RecvFail ==
    /\ pc = "recv"
    /\ result' = Finish(call, ErrIo("recv"))
    /\ sock' = "closed"
    /\ pc' = "done"
    /\ UNCHANGED <<endian, links, call, msg, inbox, stats, expect, build, created, modeVars,
                   mtuVars, concVars, bytesVars>>

\* create: if_nametoindex(name) after the acknowledgement
Resolve ==
    /\ pc = "resolve"
    /\ LET found == if_nametoindex(call.name, links)
       IN IF found = {}
          THEN result' = ErrMsg("Interface must have been deleted between request and this if_nametoindex")
          ELSE \E i \in found : result' = OkHandle(i)
    /\ pc' = "done"
    /\ UNCHANGED <<endian, links, call, msg, sock, inbox, stats, expect, build, created, modeVars,
                   mtuVars, concVars, bytesVars>>

\* what a successful call has set on the index it worked on
Expected(ex, c, res) ==
    IF res.tag # "Ok" THEN ex
    ELSE CASE c.op = "bring_up" -> [ex EXCEPT ![c.self].up = "up"]
           [] c.op = "bring_down" -> [ex EXCEPT ![c.self].up = "down"]
           [] c.op = "set_mtu" -> [ex EXCEPT ![c.self].mtu = c.mtu]
           [] c.op = "delete" -> [ex EXCEPT ![c.self] = NoExpect]
           [] c.op = "create" /\ res.if_index \in Indices ->
                [ex EXCEPT ![res.if_index] =
                    [name |-> SomeName(c.name), up |-> "down", mtu |-> "unknown"]]
           [] OTHER -> ex

ResetCall ==
    /\ pc' = "idle"
    /\ call' = NoCall
    /\ msg' = NoMsg
    /\ sock' = "none"
    /\ inbox' = NoReply
    /\ result' = NoResult
    /\ stats' = NoStats
    /\ created' = 0

\* the call returns to the caller, who notes what it has set
Return ==
    /\ pc = "done"
    /\ expect' = Expected(expect, call, result)
    /\ ResetCall
    /\ UNCHANGED <<endian, links, build, modeVars,
                   mtuVars, concVars, bytesVars>>

InitNl ==
    /\ ModesIdle
    /\ MtuIdle
    /\ endian \in {"little", "big"}
    /\ links \in {[i \in Indices |-> NoLink],
                  [i \in Indices |-> IF i = 1 THEN Can0 ELSE NoLink]}
    /\ pc = "idle"
    /\ call = NoCall
    /\ msg = NoMsg
    /\ sock = "none"
    /\ inbox = NoReply
    /\ result = NoResult
    /\ stats = NoStats
    /\ expect = [i \in Indices |-> NoExpect]
    /\ build = "debug"
    /\ created = 0
    /\ ConcIdle
    /\ BytesIdle

\* the caller against the kernel, with no other process changing links
Next ==
    \/ \E c \in Calls : Start(c)
    \/ OpenSocket
    \/ OpenFail
    \/ Send
    \/ SendFail
    \/ Recv
    \/ Resolve
    \/ Return

Spec == InitNl /\ [][Next]_vars

\* ------------------------------------------------------- mocked transport

\* sequences of at most n elements of S
RECURSIVE SeqsUpTo(_, _)
SeqsUpTo(S, n) ==
    IF n = 0 THEN {<<>>}
    ELSE LET shorter == SeqsUpTo(S, n - 1)
         IN shorter \cup {Append(q, x) : q \in shorter, x \in S}

\* name attribute payloads: empty, "", "a", "a" without its nul, a nul inside,
\* a byte that is not UTF-8, and a two-byte character
MockNamePayloads ==
    {<<>>, <<0>>, <<97, 0>>, <<97>>, <<97, 0, 98, 0>>, <<255, 0>>, <<195, 169, 0>>}

\* MTU attribute payloads: 16 and 72 in either byte order, 17, and payloads
\* of three and of five bytes
MockMtuPayloads ==
    {<<16, 0, 0, 0>>, <<0, 0, 0, 16>>, <<72, 0, 0, 0>>, <<17, 0, 0, 0>>,
     <<16, 0, 0>>, <<72, 0, 0, 0, 0>>}

MockAttrs ==
    {Rtattr("Ifname", b) : b \in MockNamePayloads}
    \cup {Rtattr("Mtu", b) : b \in MockMtuPayloads}
    \cup {Rtattr("Txqlen", <<16, 0, 0, 0>>)}

\* the link-info payloads a mocked transport answers a query with
MockLinkPayloads ==
    {Ifinfomsg(i, f, {}, a) :
        i \in Indices, f \in {{}, {"Running"}, {"Up", "Running"}},
        a \in SeqsUpTo(MockAttrs, MaxAttrs)}

\* what a mocked transport may hold for the next recv()
MockReplies(m) ==
    {NoReply, AckReply, EmptyReply, ErrReply("ENODEV"), ErrReply("EPERM")}
    \cup {PayloadReply(p) :
            p \in IF m.nl_type = "Getlink" THEN MockLinkPayloads
                  ELSE {Ifinfomsg(1, {"Up"}, {}, <<Rtattr("Ifname", <<97, 0>>)>>)}}

\* sock.send(msg) to a mocked transport, which holds any reply
MockSend ==
    /\ pc = "send"
    /\ inbox' \in MockReplies(msg)
    /\ stats' = [stats EXCEPT !.sent = @ + 1]
    /\ pc' = "recv"
    /\ UNCHANGED <<endian, links, call, msg, sock, result, expect, build, created, modeVars,
                   mtuVars, concVars, bytesVars>>

\* the call returns to the caller
MockReturn ==
    /\ pc = "done"
    /\ ResetCall
    /\ UNCHANGED <<endian, links, expect, build, modeVars,
                   mtuVars, concVars, bytesVars>>

InitMock ==
    /\ ModesIdle
    /\ MtuIdle
    /\ endian \in {"little", "big"}
    /\ links = [i \in Indices |-> IF i = 1 THEN Link(NameA, KindVcan, FALSE, 72) ELSE NoLink]
    /\ pc = "idle"
    /\ call = NoCall
    /\ msg = NoMsg
    /\ sock = "none"
    /\ inbox = NoReply
    /\ result = NoResult
    /\ stats = NoStats
    /\ expect = [i \in Indices |-> NoExpect]
    /\ build \in {"debug", "release"}
    /\ created = 0
    /\ ConcIdle
    /\ BytesIdle

\* the caller against a mocked transport that may answer anything
NextMock ==
    \/ \E c \in Calls \cup ParamCalls : Start(c)
    \/ OpenSocket
    \/ OpenFail
    \/ MockSend
    \/ SendFail
    \/ Recv
    \/ RecvFail
    \/ Resolve
    \/ MockReturn

SpecMock == InitMock /\ [][NextMock]_vars

\* ------------------------------------------------ control-mode accumulation

InitModes == ModesIdle /\ MtuIdle /\ NlIdle /\ ConcIdle /\ BytesIdle

\* modes.add(mode, on)
Add(mode, on) ==
    /\ Len(applied) < MaxAdds
    /\ modes' = add(modes, mode, on)
    /\ applied' = Append(applied, <<mode, on>>)
    /\ UNCHANGED <<ctor, mtuVars, nlVars, concVars, bytesVars>>

\* modes = CanCtrlModes::from_mode(mode, on)
FromMode(mode, on) ==
    /\ modes' = from_mode(mode, on)
    /\ applied' = <<<<mode, on>>>>
    /\ ctor' = "from_mode"
    /\ UNCHANGED <<mtuVars, nlVars, concVars, bytesVars>>

\* modes.clear()
Clear ==
    /\ applied # <<>>
    /\ modes' = clear(modes)
    /\ applied' = <<>>
    /\ ctor' = "default"
    /\ UNCHANGED <<mtuVars, nlVars, concVars, bytesVars>>

NextModes ==
    \/ \E mode \in CtrlModeNames, on \in BOOLEAN : Add(mode, on)
    \/ \E mode \in CtrlModeNames, on \in BOOLEAN : FromMode(mode, on)
    \/ Clear

SpecModes == InitModes /\ [][NextModes]_vars

\* the OR of a finite set of u32 values
RECURSIVE OrAll(_)
OrAll(S) ==
    IF S = {} THEN 0
    ELSE LET x == CHOOSE y \in S : TRUE IN BitOr(x, OrAll(S \ {x}))

\* add() applied to `start` for the entries of `seq`, in order
RECURSIVE AddAll(_, _)
AddAll(start, seq) ==
    IF seq = <<>> THEN start
    ELSE AddAll(add(start, seq[1][1], seq[1][2]), Tail(seq))

Perms(n) == {p \in [1..n -> 1..n] : \A i, j \in 1..n : p[i] = p[j] => i = j}

\* C1: adds applied to a fresh pair leave mask = the OR of every entry's
\* mode mask, flags = the OR of the masks of the entries applied with
\* on = TRUE, and every permutation of the entries gives the same pair.
C1_Accumulate ==
    ctor = "default" =>
        LET n == Len(applied)
            allMasks == {mask(applied[i][1]) : i \in 1..n}
            onMasks == {mask(applied[i][1]) : i \in {j \in 1..n : applied[j][2]}}
        IN /\ modes.mask = OrAll(allMasks)
           /\ modes.flags = OrAll(onMasks)
           /\ \A p \in Perms(n) :
                AddAll(can_ctrlmode_default, [i \in 1..n |-> applied[p[i]]]) = modes

\* two adds on a fresh pair, a disabled mode and then an enabled one
C1_Witness ==
    /\ ctor = "default"
    /\ applied = <<<<"Loopback", FALSE>>, <<"CcLen8Dlc", TRUE>>>>
    /\ modes = [mask |-> 257, flags |-> 256]

\* C2: from_mode(m, on) is add(m, on) on a default pair: mask is the one
\* bit 1 << ordinal(m), flags is that bit when on and zero otherwise.
C2_FromMode ==
    (ctor = "from_mode" /\ Len(applied) = 1) =>
        LET m == applied[1][1]
            on == applied[1][2]
        IN /\ modes = AddAll(can_ctrlmode_default, applied)
           /\ modes.mask = 2 ^ CanCtrlMode[m]
           /\ \A b \in 0..30 : BitSet(modes.mask, b) <=> b = CanCtrlMode[m]
           /\ modes.flags = IF on THEN modes.mask ELSE 0

\* from_mode called with a disabled mode
C2_Witness ==
    /\ ctor = "from_mode"
    /\ applied = <<<<"NonIso", FALSE>>>>
    /\ modes = [mask |-> 128, flags |-> 0]

\* ------------------------------------------------------------ Mtu decoding

\* the u32 values tried: the small ones and the top of the range
RawValues == (0..MaxRaw) \cup {2147483647, 65536 + 16, 4096 + 72, 16 * 16777216}

InitMtu ==
    /\ ModesIdle
    /\ NlIdle
    /\ ConcIdle
    /\ BytesIdle
    /\ mtuRaw \in RawValues
    /\ mtuSrc = "none"
    /\ mtuRes = MtuPending

\* raw = mtu as u32
EncodeMtu(m) ==
    /\ mtuRaw' = MtuAsU32(m)
    /\ mtuSrc' = m
    /\ mtuRes' = MtuPending
    /\ UNCHANGED <<modeVars, nlVars, concVars, bytesVars>>

\* Mtu::try_from(raw)
DecodeMtu ==
    /\ mtuRes = MtuPending
    /\ mtuRes' = try_from(mtuRaw)
    /\ UNCHANGED <<mtuRaw, mtuSrc, modeVars, nlVars, concVars, bytesVars>>

NextMtu ==
    \/ \E m \in MtuNames : EncodeMtu(m)
    \/ DecodeMtu

SpecMtu == InitMtu /\ [][NextMtu]_vars

\* C3: decoding inverts encoding on {Standard, Fd}; 16 decodes to Standard,
\* 72 to Fd, and every other u32 to an InvalidData error.
C3_MtuRoundTrip ==
    mtuRes # MtuPending =>
        /\ mtuSrc # "none" => mtuRes = [ok |-> TRUE, val |-> mtuSrc]
        /\ mtuRaw = 16 => mtuRes = [ok |-> TRUE, val |-> "Standard"]
        /\ mtuRaw = 72 => mtuRes = [ok |-> TRUE, val |-> "Fd"]
        /\ mtuRaw \notin {16, 72} => mtuRes = [ok |-> FALSE, val |-> "InvalidData"]
        /\ mtuRes.ok => MtuAsU32(mtuRes.val) = mtuRaw

\* an encoded Fd decoded back
C3_Witness == mtuSrc = "Fd" /\ mtuRaw = 72 /\ mtuRes = [ok |-> TRUE, val |-> "Fd"]

\* ------------------------------------------------- claims on the round trip

TooLong == ErrMsg("Interface name too long")

\* the call has read its one reply
ReplyRead == pc \in {"done", "resolve"} /\ stats.recvd = 1

\* send_info_msg returned Ok(()): the call succeeded, or create went on to
\* resolve the name (which alone gives a Msg error after a reply was read)
SendInfoOk ==
    \/ pc = "resolve"
    \/ pc = "done" /\ result.tag = "Ok"
    \/ pc = "done" /\ result.tag = "Err" /\ result.err = "Msg"

\* C4: a mutating call succeeds exactly when the one reply it read is an
\* acknowledgement; an error reply comes back as that netlink error; no
\* reply, or a reply that is neither, comes back as NoAck, which is never
\* the netlink error.
C4_AckOnly ==
    (ReplyRead /\ call.op # "details") =>
        /\ SendInfoOk <=> inbox.kind = "Ack"
        /\ inbox.kind = "Err" =>
            /\ pc = "done" /\ result.tag = "Err"
            /\ result.err = "Nlmsgerr" /\ result.code = inbox.code
        /\ inbox.kind \in {"None", "Empty", "Payload"} =>
            /\ pc = "done" /\ result.tag = "Err"
            /\ result.err = "NoAck"

\* bring_up answered by a message that is neither an Ack nor an error
C4_Witness ==
    /\ pc = "done"
    /\ call.op = "bring_up"
    /\ stats.recvd = 1
    /\ inbox.kind = "Payload"
    /\ result = ErrNoAck

\* C5 as stated: a details call whose reply has no data payload (an Ack, an
\* error, an empty message) fails with NoAck, and a record is returned only
\* for a reply with a link-info payload.
C5_Original ==
    (pc = "done" /\ call.op = "details" /\ stats.recvd = 1) =>
        /\ inbox.kind \in {"Ack", "Err", "Empty", "None"} => result = ErrNoAck
        /\ result.tag = "Ok" => inbox.kind = "Payload"

\* C5 as amended: details fails with NoAck exactly when recv() finds no
\* message; an error reply comes back as that netlink error; a message
\* without a payload gives a record holding the queried index and the
\* defaults; only a link-info payload gives any other record.
C5_NoPayload ==
    (pc = "done" /\ call.op = "details" /\ stats.recvd = 1) =>
        /\ result = ErrNoAck <=> inbox.kind = "None"
        /\ inbox.kind = "Err" => result = ErrNlmsgerr(inbox.code)
        /\ inbox.kind \in {"Ack", "Empty"} =>
            result = OkDetails(InterfaceDetailsNew(call.self))
        /\ (result.tag = "Ok" /\ result.info # InterfaceDetailsNew(call.self)) =>
            inbox.kind = "Payload"

\* details answered by an acknowledgement
C5_Witness ==
    /\ pc = "done"
    /\ call.op = "details"
    /\ call.self = 2
    /\ stats.recvd = 1
    /\ inbox.kind = "Ack"
    /\ result = OkDetails(InterfaceDetailsNew(2))

\* C6: create with a name longer than IFNAMSIZ returns "Interface name too
\* long" with no socket opened and nothing sent, and whenever a call ends in
\* that error no transport action has occurred.
C6_NameTooLong ==
    /\ (pc # "idle" /\ call.op = "create" /\ Len(call.name) > IFNAMSIZ) =>
        /\ pc = "done"
        /\ result = TooLong
    /\ (pc = "done" /\ result = TooLong) =>
        /\ stats = NoStats
        /\ sock = "none"
        /\ msg = NoMsg
        /\ inbox = NoReply

\* create_vcan with the name of IFNAMSIZ + 1 bytes has returned
C6_Witness ==
    /\ pc = "done"
    /\ call.op = "create"
    /\ call.name = Name17
    /\ result = TooLong
    /\ stats = NoStats

\* C7: a failed delete returns the handle with the index it had and the
\* error; a successful delete returns no handle.
C7_DeleteKeepsHandle ==
    (pc = "done" /\ call.op = "delete") =>
        /\ result.tag \in {"Ok", "Err"}
        /\ result.tag = "Err" =>
            /\ DOMAIN result = {"tag", "err", "code", "if_index"}
            /\ result.if_index = call.self
            /\ result.err \in {"Io", "Nlmsgerr", "NoAck"}
        /\ result.tag = "Ok" => result = OkUnit
        /\ result.tag = "Ok" <=> (stats.recvd = 1 /\ inbox.kind = "Ack")

\* delete of index 2 rejected by a netlink error
C7_Witness ==
    /\ pc = "done"
    /\ call.op = "delete"
    /\ call.self = 2
    /\ result = [tag |-> "Err", err |-> "Nlmsgerr", code |-> "EPERM", if_index |-> 2]

\* C8: with no other process at work, details reports is_up as the caller's
\* most recent successful bring_up or bring_down set it (down for an
\* interface the caller created), and the name the interface was created
\* with.
C8_UpDown ==
    (pc = "done" /\ call.op = "details" /\ result.tag = "Ok") =>
        LET ex == expect[call.self]
            info == result.info
        IN /\ ex.up # "unknown" => (info.is_up <=> ex.up = "up")
           /\ ex.name.some => info.name = ex.name

\* details of an interface the caller created as "vcan0" and brought up
C8_Witness ==
    /\ pc = "done"
    /\ call.op = "details"
    /\ result.tag = "Ok"
    /\ expect[call.self] = [name |-> SomeName(NameA), up |-> "up", mtu |-> "Standard"]
    /\ result.info.is_up
    /\ result.info.name = SomeName(NameA)

\* C9: with no other process at work, details reports the Mtu of the
\* caller's most recent successful set_mtu, and what set_mtu encodes,
\* details decodes back.
C9_MtuSetGet ==
    /\ \A m \in MtuNames :
        DecodeMtuAttr(InterfaceDetailsNew(0), SetMtuMsg([NoCall EXCEPT !.mtu = m])
                        .nl_payload.rtattrs[1].rta_payload, endian).mtu = m
    /\ (pc = "done" /\ call.op = "details" /\ result.tag = "Ok") =>
        (expect[call.self].mtu # "unknown" => result.info.mtu = expect[call.self].mtu)

\* details after set_mtu(Standard) on a big-endian build
C9_Witness ==
    /\ pc = "done"
    /\ call.op = "details"
    /\ endian = "big"
    /\ result.tag = "Ok"
    /\ expect[call.self].mtu = "Standard"
    /\ result.info.mtu = "Standard"

\* a payload that is a nul-terminated string of valid UTF-8
NulTerminatedUtf8(b) == Len(b) >= 1 /\ b[Len(b)] = 0 /\ Utf8Valid(Front(b))

\* C10: for any link-info payload details returns a record: its index is the
\* handle's, is_up is the Up bit of the reply's flags, the name is set only
\* from a nul-terminated UTF-8 name attribute (nul stripped), the mtu only
\* from a 4-byte MTU attribute that holds 16 or 72, and the other
\* attributes change nothing.
C10_Decode ==
    (pc = "done" /\ call.op = "details" /\ stats.recvd = 1 /\ inbox.kind = "Payload") =>
        LET p == inbox.payload
            names == {p.rtattrs[i].rta_payload :
                        i \in {j \in 1..Len(p.rtattrs) : p.rtattrs[j].rta_type = "Ifname"}}
            mtus == {p.rtattrs[i].rta_payload :
                        i \in {j \in 1..Len(p.rtattrs) : p.rtattrs[j].rta_type = "Mtu"}}
            goodNames == {b \in names : NulTerminatedUtf8(b)}
            goodMtus == {b \in mtus : \E m \in MtuNames : b = to_ne_bytes(Mtu[m], endian)}
            known == [p EXCEPT !.rtattrs =
                        SelectSeq(@, LAMBDA a : a.rta_type \in {"Ifname", "Mtu"})]
        IN /\ result.tag = "Ok"
           /\ result.info.index = call.self
           /\ result.info.is_up <=> "Up" \in p.ifi_flags
           /\ result.info.name.some =>
                \E b \in goodNames : result.info.name.val = Front(b)
           /\ goodNames = {} => result.info.name = NoName
           /\ result.info.mtu # "None" =>
                \E b \in goodMtus : b = to_ne_bytes(Mtu[result.info.mtu], endian)
           /\ goodMtus = {} => result.info.mtu = "None"
           /\ result = DetailsResult(call.self, PayloadReply(known), endian)

\* a reply for another index with an undecodable name, a 5-byte MTU and an
\* attribute of another type
C10_Witness ==
    /\ pc = "done"
    /\ call.op = "details"
    /\ call.self = 2
    /\ inbox.kind = "Payload"
    /\ inbox.payload.ifi_index = 1
    /\ inbox.payload.ifi_flags = {"Up", "Running"}
    /\ inbox.payload.rtattrs = <<Rtattr("Ifname", <<255, 0>>), Rtattr("Mtu", <<72, 0, 0, 0, 0>>)>>
    /\ result = OkDetails([InterfaceDetailsNew(2) EXCEPT !.is_up = TRUE])

\* ------------------------------------------- threads of one process (C11)

\* unistd::getpid(): every thread of the process gets the same process id
getpid == "pid"

\* the calls the threads make: state changes and queries on every index
ConcCalls ==
    {[NoCall EXCEPT !.op = o, !.self = i] :
        o \in {"bring_up", "bring_down", "details"}, i \in Indices}

\* thread t calls a public operation, which builds its request
TStart(t, c) ==
    /\ tpc[t] = "idle"
    /\ tcall' = [tcall EXCEPT ![t] = c]
    /\ tpc' = [tpc EXCEPT ![t] = "open"]
    /\ UNCHANGED <<ports, tsock, tinbox, tresult, modeVars, mtuVars, nlVars, bytesVars>>

\* open_route_socket: connect(Route, Some(pid)) binds the new socket to the
\* port id `pid`, which no other open socket holds
TOpen(t) ==
    /\ tpc[t] = "open"
    /\ \A p \in ports : p.port_id # getpid
    /\ ports' = ports \cup {[port_id |-> getpid, owner |-> t]}
    /\ tsock' = [tsock EXCEPT ![t] = "open"]
    /\ tpc' = [tpc EXCEPT ![t] = "send"]
    /\ UNCHANGED <<tcall, tinbox, tresult, modeVars, mtuVars, nlVars, bytesVars>>

\* open_route_socket: the port id `pid` is held by another open socket, the
\* kernel refuses the bind, connect fails and `?` returns
TOpenBusy(t) ==
    /\ tpc[t] = "open"
    /\ \E p \in ports : p.port_id = getpid
    /\ tresult' = [tresult EXCEPT ![t] = Finish(tcall[t], ErrIo("EADDRINUSE"))]
    /\ tpc' = [tpc EXCEPT ![t] = "done"]
    /\ UNCHANGED <<ports, tcall, tsock, tinbox, modeVars, mtuVars, nlVars, bytesVars>>

\* sock.send(msg): the kernel handles the request and queues its reply on
\* the socket that holds the sender's port id
TSend(t) ==
    /\ tpc[t] = "send"
    /\ \E o \in KernelOutcomes(BuildMsg(tcall[t]), links, endian) :
        /\ links' = o.links
        /\ LET dest == CHOOSE p \in ports : p.port_id = getpid
           IN tinbox' = [tinbox EXCEPT ![dest.owner] = o.reply]
    /\ tpc' = [tpc EXCEPT ![t] = "recv"]
    /\ UNCHANGED <<ports, tcall, tsock, tresult, modeVars, mtuVars,
                   endian, pc, call, msg, sock, inbox, result, stats, expect,
                   build, created, bytesVars>>

\* sock.recv() returns, the result is formed, and the socket is dropped,
\* which frees its port id
TRecv(t) ==
    /\ tpc[t] = "recv"
    /\ tresult' = [tresult EXCEPT ![t] =
            IF tcall[t].op = "details"
            THEN DetailsResult(tcall[t].self, tinbox[t], endian)
            ELSE AckResult(tinbox[t])]
    /\ tsock' = [tsock EXCEPT ![t] = "closed"]
    /\ ports' = {p \in ports : p.owner # t}
    /\ tpc' = [tpc EXCEPT ![t] = "done"]
    /\ UNCHANGED <<tcall, tinbox, modeVars, mtuVars, nlVars, bytesVars>>

\* thread t's call returns
TReturn(t) ==
    /\ tpc[t] = "done"
    /\ tpc' = [tpc EXCEPT ![t] = "idle"]
    /\ tcall' = [tcall EXCEPT ![t] = NoCall]
    /\ tsock' = [tsock EXCEPT ![t] = "none"]
    /\ tinbox' = [tinbox EXCEPT ![t] = NoReply]
    /\ tresult' = [tresult EXCEPT ![t] = NoResult]
    /\ UNCHANGED <<ports, modeVars, mtuVars, nlVars, bytesVars>>

InitConc ==
    /\ ModesIdle
    /\ MtuIdle
    /\ ConcIdle
    /\ BytesIdle
    /\ endian \in {"little", "big"}
    /\ links = [i \in Indices |-> IF i = 1 THEN Can0 ELSE NoLink]
    /\ pc = "idle"
    /\ call = NoCall
    /\ msg = NoMsg
    /\ sock = "none"
    /\ inbox = NoReply
    /\ result = NoResult
    /\ stats = NoStats
    /\ expect = [i \in Indices |-> NoExpect]
    /\ build = "debug"
    /\ created = 0

\* the threads of one process against the kernel
NextConc ==
    \/ \E t \in Threads, c \in ConcCalls : TStart(t, c)
    \/ \E t \in Threads : TOpen(t)
    \/ \E t \in Threads : TOpenBusy(t)
    \/ \E t \in Threads : TSend(t)
    \/ \E t \in Threads : TRecv(t)
    \/ \E t \in Threads : TReturn(t)

SpecConc == InitConc /\ [][NextConc]_vars

\* C11: when threads of one process run public operations concurrently, no
\* call fails because another call's socket is open at the same time: no
\* call returns the error of a refused bind.
C11_NoInterference ==
    \A t \in Threads :
        tpc[t] = "done" => tresult[t] # Finish(tcall[t], ErrIo("EADDRINUSE"))

\* ------------------------------------------ bit-timing byte layout (C12)

\* field values: zero, the sample point of test_as_bytes, and a value whose
\* four bytes all differ (0x01020304)
FieldVals == {0, 750, 16909060}

TimingRecords == [{can_bittiming[k] : k \in DOMAIN can_bittiming} -> FieldVals]

\* as_bytes(&timing) is called
AsBytes ==
    /\ raw = <<>>
    /\ raw' = as_bytes(timing, can_bittiming, endian)
    /\ UNCHANGED <<timing, modeVars, mtuVars, nlVars, concVars>>

\* set_bitrate / set_data_bitrate build their record, after the assertions
\* of a debug build
BuildBitTiming(c) ==
    /\ build = "debug" => DebugAsserts(c) = ""
    /\ call' = c
    /\ timing' = BitTiming(c.bitrate, c.sample_point)
    /\ raw' = <<>>
    /\ UNCHANGED <<endian, links, pc, msg, sock, inbox, result, stats, expect,
                   build, created, modeVars, mtuVars, concVars>>

InitBytes ==
    /\ ModesIdle
    /\ MtuIdle
    /\ ConcIdle
    /\ endian \in {"little", "big"}
    /\ links = [i \in Indices |-> NoLink]
    /\ pc = "idle"
    /\ call = NoCall
    /\ msg = NoMsg
    /\ sock = "none"
    /\ inbox = NoReply
    /\ result = NoResult
    /\ stats = NoStats
    /\ expect = [i \in Indices |-> NoExpect]
    /\ build \in {"debug", "release"}
    /\ created = 0
    /\ timing \in TimingRecords
    /\ raw = <<>>

NextBytes ==
    \/ AsBytes
    \/ \E c \in {p \in ParamCalls : p.op \in {"set_bitrate", "set_data_bitrate"}
                                   /\ p.self = 1} : BuildBitTiming(c)

SpecBytes == InitBytes /\ [][NextBytes]_vars

\* the four bytes of field number k of a byte image
FieldBytes(b, k) == SubSeq(b, 4 * k - 3, 4 * k)

\* C12: as_bytes of a bit-timing record is 32 bytes, the native-width
\* encodings of bitrate, sample_point, tq, prop_seg, phase_seg1, phase_seg2,
\* sjw, brp in that order with no padding; in a record built by set_bitrate
\* or set_data_bitrate the first two fields are the inputs and the other six
\* are zero.
C12_Layout ==
    raw # <<>> =>
        /\ Len(raw) = 32
        /\ from_ne_bytes(FieldBytes(raw, 1), endian) = timing.bitrate
        /\ from_ne_bytes(FieldBytes(raw, 2), endian) = timing.sample_point
        /\ from_ne_bytes(FieldBytes(raw, 3), endian) = timing.tq
        /\ from_ne_bytes(FieldBytes(raw, 4), endian) = timing.prop_seg
        /\ from_ne_bytes(FieldBytes(raw, 5), endian) = timing.phase_seg1
        /\ from_ne_bytes(FieldBytes(raw, 6), endian) = timing.phase_seg2
        /\ from_ne_bytes(FieldBytes(raw, 7), endian) = timing.sjw
        /\ from_ne_bytes(FieldBytes(raw, 8), endian) = timing.brp
        /\ call.op \in {"set_bitrate", "set_data_bitrate"} =>
            /\ timing.bitrate = call.bitrate
            /\ timing.sample_point = unwrap_or_0(call.sample_point)
            /\ \A k \in 3..8 : FieldBytes(raw, k) = <<0, 0, 0, 0>>

\* the record of test_as_bytes, built by set_bitrate(500000, 750) on a
\* little-endian target, has been turned into bytes
C12_Witness ==
    /\ call.op = "set_bitrate"
    /\ call.bitrate = 500000
    /\ call.sample_point = SomeIdx(750)
    /\ endian = "little"
    /\ Len(raw) = 32
    /\ SubSeq(raw, 1, 8) = <<32, 161, 7, 0, 238, 2, 0, 0>>

\* ------------------------------------- claims on requests and round trips

\* C13: every public operation is one round trip: it opens at most one
\* socket, calls send at most once and exactly once if the socket opened,
\* reads at most one reply, sends nothing more after a failure, and when the
\* call is about to return, on every path, the socket it opened is closed.
C13_OneRoundTrip ==
    /\ stats.opened <= 1
    /\ stats.sent <= stats.opened
    /\ stats.recvd <= stats.sent
    /\ sock = "open" => stats.opened = 1
    /\ pc \in {"done", "resolve"} =>
        /\ stats.opened = 1 => stats.sent = 1
        /\ sock = IF stats.opened = 1 THEN "closed" ELSE "none"

\* restart's send failed: one socket was opened, send was called once,
\* nothing was read, and the socket is closed as the call returns
C13_Witness ==
    /\ pc = "done"
    /\ call.op = "restart"
    /\ result = ErrIo("send")
    /\ stats = [opened |-> 1, sent |-> 1, recvd |-> 0]
    /\ sock = "closed"

\* the operations that go through set_can_param
ParamOps ==
    {"set_bitrate", "set_data_bitrate", "set_ctrlmodes", "set_ctrlmode",
     "set_restart_ms", "restart"}

\* C14: the header of every request is fixed by the operation: create sends
\* new-link with exactly {request, acknowledge, create, exclusive}; the
\* set-parameter operations, set_mtu, bring_up and bring_down send new-link,
\* and delete sends del-link, with exactly {request, acknowledge}; details
\* sends get-link with exactly {request}.
C14_HeaderFlags ==
    stats.sent >= 1 =>
        CASE call.op = "create" ->
                /\ msg.nl_type = "Newlink"
                /\ msg.nl_flags = {"Request", "Ack", "Create", "Excl"}
          [] call.op \in ParamOps \cup {"set_mtu", "bring_up", "bring_down"} ->
                /\ msg.nl_type = "Newlink"
                /\ msg.nl_flags = {"Request", "Ack"}
          [] call.op = "delete" ->
                /\ msg.nl_type = "Dellink"
                /\ msg.nl_flags = {"Request", "Ack"}
          [] call.op = "details" ->
                /\ msg.nl_type = "Getlink"
                /\ msg.nl_flags = {"Request"}
          [] OTHER -> FALSE

\* the query has been sent with the request flag alone
C14_Witness ==
    /\ call.op = "details"
    /\ stats.sent = 1
    /\ msg.nl_type = "Getlink"
    /\ msg.nl_flags = {"Request"}

\* the call's bitrate is in 1..=1000000 and its sample point, absent taken
\* as 0, is in 0..1000
InRange ==
    /\ 1 <= call.bitrate /\ call.bitrate <= 1000000
    /\ 0 <= unwrap_or_0(call.sample_point) /\ unwrap_or_0(call.sample_point) < 1000

\* the parameter attribute of a set-parameter request
ParamAttr(m) == m.nl_payload.rtattrs[1].nested[2].nested[1]

\* C15 as stated: in a build that checks assertions, a set_bitrate or
\* set_data_bitrate call with an out-of-range bitrate or sample point is
\* stopped by an assertion before a message is built or sent.
C15_Original ==
    (build = "debug" /\ call.op \in {"set_bitrate", "set_data_bitrate"}
        /\ ~InRange) =>
        /\ pc = "done" /\ result.tag = "Panic"
        /\ msg = NoMsg
        /\ stats = NoStats

\* C15: in a build that checks assertions, a set_bitrate call with an
\* out-of-range bitrate or sample point is stopped by an assertion before a
\* message is built or a socket opened, so every bit-timing request sent is
\* in range; set_data_bitrate asserts nothing, and in every build its
\* request carries the bitrate and sample point it was given.
C15_BitrateOnly ==
    /\ (build = "debug" /\ call.op = "set_bitrate" /\ ~InRange) =>
        /\ pc = "done" /\ result.tag = "Panic"
        /\ msg = NoMsg
        /\ stats = NoStats
    /\ (build = "debug" /\ call.op = "set_bitrate" /\ stats.sent >= 1) => InRange
    /\ call.op = "set_data_bitrate" =>
        /\ result.tag # "Panic"
        /\ msg.nl_type = "Newlink"
        /\ from_ne_bytes(FieldBytes(ParamAttr(msg).rta_payload, 1), endian)
            = call.bitrate
        /\ from_ne_bytes(FieldBytes(ParamAttr(msg).rta_payload, 2), endian)
            = unwrap_or_0(call.sample_point)

\* set_bitrate(500000, Some(1000)) in a debug build: the sample point
\* assertion stopped it with no message built and no socket opened
C15_Witness ==
    /\ build = "debug"
    /\ call.op = "set_bitrate"
    /\ call.bitrate = 500000
    /\ call.sample_point = SomeIdx(1000)
    /\ pc = "done"
    /\ result.tag = "Panic"
    /\ stats = NoStats

\* C16: a set-parameter request has one top-level attribute, Linkinfo, which
\* nests one Kind equal to "can" and one Data; Data nests one attribute
\* whose type is the kernel code of the operation (1 set_bitrate, 9
\* set_data_bitrate, 5 set_ctrlmode(s), 6 set_restart_ms, 7 restart with the
\* value 1); the request addresses the handle's index and both interface
\* flag fields are empty.
C16_SetParam ==
    (call.op \in ParamOps /\ stats.sent >= 1) =>
        LET info == msg.nl_payload
            top == info.rtattrs
            kinds == AttrsOf(top[1].nested, "Kind")
            datas == AttrsOf(top[1].nested, "Data")
        IN /\ Len(top) = 1
           /\ top[1].rta_type = "Linkinfo"
           /\ Len(top[1].nested) = 2
           /\ Len(kinds) = 1
           /\ kinds[1].rta_payload = <<99, 97, 110, 0>>
           /\ Len(datas) = 1
           /\ Len(datas[1].nested) = 1
           /\ datas[1].nested[1].nested = <<>>
           /\ datas[1].nested[1].rta_type =
                CASE call.op = "set_bitrate" -> 1
                  [] call.op = "set_data_bitrate" -> 9
                  [] call.op \in {"set_ctrlmodes", "set_ctrlmode"} -> 5
                  [] call.op = "set_restart_ms" -> 6
                  [] call.op = "restart" -> 7
           /\ call.op = "restart" =>
                /\ Len(datas[1].nested[1].rta_payload) = 4
                /\ from_ne_bytes(datas[1].nested[1].rta_payload, endian) = 1
           /\ info.ifi_index = call.self
           /\ info.ifi_flags = {}
           /\ info.ifi_change = {}

\* restart on index 2 has been sent: Data nests the one attribute 7
C16_Witness ==
    /\ call.op = "restart"
    /\ call.self = 2
    /\ stats.sent = 1
    /\ msg.nl_payload.ifi_index = 2
    /\ ParamAttr(msg).rta_type = 7

\* ------------------------------------- create beside other processes (C17)

\* the create calls of the caller
CreateCalls == {c \in Calls : c.op = "create"}

\* what other processes ask of the kernel: delete any link, create a vcan
\* link under any name
OtherCalls ==
    {[NoCall EXCEPT !.op = "delete", !.self = i] : i \in Indices}
    \cup {[NoCall EXCEPT !.op = "create", !.name = n, !.kind = KindVcan] :
            n \in {NameA, NameB}}

\* another process's request is handled by the kernel and changes the links
Other(c) ==
    /\ \E o \in KernelOutcomes(BuildMsg(c), links, endian) :
        /\ o.links # links
        /\ links' = o.links
    /\ UNCHANGED <<endian, pc, call, msg, sock, inbox, result, stats, expect,
                   build, created, modeVars, mtuVars, concVars, bytesVars>>

InitRace ==
    /\ ModesIdle
    /\ MtuIdle
    /\ NlIdle
    /\ ConcIdle
    /\ BytesIdle

\* the caller's creates against the kernel, with other processes changing
\* links at any moment
NextRace ==
    \/ \E c \in CreateCalls : Start(c)
    \/ OpenSocket
    \/ OpenFail
    \/ Send
    \/ SendFail
    \/ Recv
    \/ Resolve
    \/ MockReturn
    \/ \E c \in OtherCalls : Other(c)

SpecRace == InitRace /\ [][NextRace]_vars

\* C17: when create returns a handle, its index is the explicit index if
\* one was given, and otherwise the index the kernel gave the link this
\* request created, whatever other processes do between the acknowledgement
\* and the name resolution.
C17_CreatedIndex ==
    (pc = "done" /\ call.op = "create" /\ result.tag = "Ok") =>
        IF call.index.some
        THEN result.if_index = call.index.val
        ELSE result.if_index = created

====
